---- MODULE Spec2Model ----
(***************************************************************************)
(* Model of bayes_optuna/optuna_hpo.py: the Objective adapter (one call    *)
(* per Optuna trial) and the recommend driver around study.optimize.       *)
(*                                                                         *)
(* Numbers: tunable bounds and steps of "double" tunables are in tenths,   *)
(* the runner's objective values are in thousandths and the value a trial  *)
(* returns (rounded to 2 decimals) is in hundredths.                       *)
(***************************************************************************)
EXTENDS Integers, Sequences, FiniteSets, TLC

VARIABLES
    n_trials,            \* module global, line 28
    n_jobs,              \* module global, line 29
    trials,              \* module global list of trial records, line 33
    tunables,            \* argument of recommend
    direction,           \* argument of recommend
    hpo_algo_impl,       \* argument of recommend
    pc,                  \* where the current recommend call is
    sampler,             \* local of recommend, lines 106-111
    run,                 \* the study's trials of the current call, with the
                         \* locals of the Objective call that evaluates each
    best_trial,          \* the study's best trial (0: none completed yet)
    recommended_config,  \* local of recommend, lines 128-151
    returned,            \* what the call hands to its caller (<<>>: None)
    err,                 \* the exception the last call ended with
    logged,              \* the "Recommended config" messages, line 153
    calls                \* recommend calls made so far in this process

vars == <<n_trials, n_jobs, trials, tunables, direction, hpo_algo_impl, pc,
          sampler, run, best_trial, recommended_config, returned, err,
          logged, calls>>

----------------------------------------------------------------------------
(* Bounds *)

MaxTrials == 2
MaxJobs == 2
MaxCalls == 2

----------------------------------------------------------------------------
(* Inputs *)

NoneVal == "None"
Unset == "unset"

cpu == [name |-> "cpu", value_type |-> "Double",
        lower_bound |-> 5, upper_bound |-> 8, step |-> 2]
replicas == [name |-> "replicas", value_type |-> "integer",
             lower_bound |-> 3, upper_bound |-> 3, step |-> 1]
mode == [name |-> "mode", value_type |-> "categorical",
         choices |-> <<"fast", "safe">>]
flag == [name |-> "flag", value_type |-> "boolean"]

\* Calls every tunable of which has a value_type the adapter knows, under a
\* strategy name recommend knows: <<tunables, hpo_algo_impl>>.
KnownCalls == {<<<<cpu, replicas, mode>>, "optuna_tpe">>,
               <<<<mode, cpu>>, "optuna_tpe_multivariate">>,
               <<<<replicas>>, "optuna_skopt">>}

Directions == {"minimize", "maximize"}

\* Calls with a tunable whose value_type the adapter does not know, or with a
\* strategy name recommend does not know.
UnknownCalls == {<<<<cpu, flag>>, "optuna_tpe">>,
                 <<<<flag, cpu>>, "optuna_skopt">>,
                 <<<<mode, flag, replicas>>, "optuna_tpe_multivariate">>,
                 <<<<mode, cpu>>, "optuna_random">>}

\* What perform_experiment may return: <<objective value, status>>.
Outcomes == {<<1234, "success">>, <<987, "failure">>, <<456, "prune">>}

----------------------------------------------------------------------------
(* Pure helpers *)

\* str.lower() on the value_type strings that occur.
Lower(s) ==
    CASE s = "Double" -> "double"
      [] s = "DOUBLE" -> "double"
      [] s = "Integer" -> "integer"
      [] s = "Categorical" -> "categorical"
      [] OTHER -> s

\* A sampler that also offers the upper bound when no step reaches it.
SuggestDiscreteUniformWithHigh(t) ==
    {t.lower_bound + k * t.step :
        k \in 0 .. ((t.upper_bound - t.lower_bound) \div t.step)}
    \cup {t.upper_bound}

\* trial.suggest_discrete_uniform(name, low, high, q): low + k*q, not above high.
SuggestDiscreteUniform(t) ==
    {t.lower_bound + k * t.step :
        k \in 0 .. ((t.upper_bound - t.lower_bound) \div t.step)}

\* trial.suggest_int(name, low, high, step): low + k*step, not above high.
SuggestInt(t) ==
    {t.lower_bound + k * t.step :
        k \in 0 .. ((t.upper_bound - t.lower_bound) \div t.step)}

\* trial.suggest_categorical(name, choices).
SuggestCategorical(t) == {t.choices[i] : i \in 1 .. Len(t.choices)}

Recognized(t) == Lower(t.value_type) \in {"double", "integer", "categorical"}

\* The if/elif chain of lines 55-64, for a tunable it recognizes.
Suggest(t) ==
    IF Lower(t.value_type) = "double" THEN SuggestDiscreteUniform(t)
    ELSE IF Lower(t.value_type) = "integer" THEN SuggestInt(t)
    ELSE SuggestCategorical(t)

\* round(float(v), 2): thousandths to hundredths, to the nearest; a tie, which
\* no outcome above produces, goes to the even neighbour.
Round2(v) ==
    LET q == v \div 10
        r == v % 10
    IN  IF r < 5 THEN q
        ELSE IF r > 5 THEN q + 1
        ELSE IF q % 2 = 0 THEN q ELSE q + 1

\* The if/elif chain of lines 106-111.
ChooseSampler(algo) ==
    CASE algo = "optuna_tpe" -> "TPESampler"
      [] algo = "optuna_tpe_multivariate" -> "TPESampler(multivariate)"
      [] algo = "optuna_skopt" -> "SkoptSampler"
      [] OTHER -> Unset

\* The study keeps the first trial that reached the best value.
Better(dir, new, old) ==
    IF dir = "minimize" THEN new < old ELSE new > old

\* An adapter that never raises TrialPruned.
PrunedNever(status) == FALSE

\* An adapter that discards failed experiments as well.
PrunedOrFailed(status) == status \in {"prune", "failure"}

\* The test of line 78.
Pruned(status) == status = "prune"

\* A driver that starts one trial too many.
MoreToSubmitOffByOne == Len(run) <= n_trials

\* study.optimize(..., n_trials=n_trials): trials are left to start.
MoreToSubmit == Len(run) < n_trials

NewTrial ==
    [st |-> "SAMPLING", idx |-> 1, tunable_value |-> <<>>,
     experiment_tunables |-> <<>>, params |-> <<>>,
     actual_slo_value |-> 0, experiment_status |-> Unset,
     rec |-> 0, value |-> 0]

Running(k) == run[k].st \in {"SAMPLING", "EVALUATING"}

NumRunning == Cardinality({k \in 1 .. Len(run) : Running(k)})

AnyFailed == \E k \in 1 .. Len(run) : run[k].st = "FAILED"

\* A reconstruction that normalises the value_type it reports.
RECURSIVE BuildTunablesLowered(_, _, _, _)
BuildTunablesLowered(tuns, best_params, i, carried) ==
    IF i > Len(tuns) THEN <<>>
    ELSE
        LET t == tuns[i]
            now == IF t.name \in DOMAIN best_params
                   THEN <<best_params[t.name]>> ELSE carried
        IN  IF Len(now) = 0 THEN <<"UnboundLocalError">>
            ELSE <<[name |-> t.name, value |-> now[1],
                    value_type |-> Lower(t.value_type)]>>
                 \o BuildTunablesLowered(tuns, best_params, i + 1, now)

\* The loops of lines 136-146 over the tunables from position i on; carried is
\* recommend's local tunable_value (<<>> while it is unbound).
RECURSIVE BuildTunables(_, _, _, _)
BuildTunables(tuns, best_params, i, carried) ==
    IF i > Len(tuns) THEN <<>>
    ELSE
        LET t == tuns[i]
            now == IF t.name \in DOMAIN best_params
                   THEN <<best_params[t.name]>> ELSE carried
        IN  IF Len(now) = 0 THEN <<"UnboundLocalError">>
            ELSE <<[name |-> t.name, value |-> now[1],
                    value_type |-> t.value_type]>>
                 \o BuildTunables(tuns, best_params, i + 1, now)

\* Arguments recommend is given besides the ones the model varies.
id == "id-1"
application_name == "app"
objective_function == "response_time"
value_type == "double"

BuildConfig(tuns, dir, best) ==
    [id |-> id, application_name |-> application_name, direction |-> dir,
     optimal_value |->
        [objective_function |->
            [name |-> objective_function, value |-> best.value,
             value_type |-> value_type],
         tunables |-> BuildTunables(tuns, best.params, 1, <<>>)]]

----------------------------------------------------------------------------
(* Initial states *)

InitCommon ==
    /\ n_trials \in 1 .. MaxTrials
    /\ n_jobs \in 1 .. MaxJobs
    /\ trials = <<>>
    /\ direction \in Directions
    /\ pc = "idle"
    /\ sampler = Unset
    /\ run = <<>>
    /\ best_trial = 0
    /\ recommended_config = Unset
    /\ returned = <<>>
    /\ err = NoneVal
    /\ logged = <<>>
    /\ calls = 0

Init ==
    /\ InitCommon
    /\ \E c \in KnownCalls : tunables = c[1] /\ hpo_algo_impl = c[2]

----------------------------------------------------------------------------
(* Actions *)

\* Lines 98-114 of recommend, up to the created study.
EnterRecommend ==
    /\ calls' = calls + 1
    /\ sampler' = ChooseSampler(hpo_algo_impl)
    /\ run' = <<>>
    /\ best_trial' = 0
    /\ recommended_config' = Unset
    /\ returned' = <<>>
    /\ IF ChooseSampler(hpo_algo_impl) = Unset
       THEN /\ pc' = "error"
            /\ err' = "UnboundLocalError"
       ELSE /\ pc' = "optimizing"
            /\ err' = NoneVal
    /\ UNCHANGED <<n_trials, n_jobs, trials, tunables, direction,
                   hpo_algo_impl, logged>>

\* The first call of recommend in the process.
Recommend ==
    /\ pc = "idle"
    /\ EnterRecommend

\* A later call of recommend in the same process, with the same arguments.
RecommendAgain ==
    /\ pc \in {"done", "error"}
    /\ calls < MaxCalls
    /\ EnterRecommend

\* study.optimize hands the next trial to a free worker, line 117.
Submit ==
    /\ pc = "optimizing"
    /\ MoreToSubmit
    /\ NumRunning < n_jobs
    /\ ~AnyFailed
    /\ run' = Append(run, NewTrial)
    /\ UNCHANGED <<n_trials, n_jobs, trials, tunables, direction,
                   hpo_algo_impl, pc, sampler, best_trial,
                   recommended_config, returned, err, logged, calls>>

\* One pass of the loop of lines 54-66.
SampleTunable(k) ==
    /\ pc = "optimizing"
    /\ run[k].st = "SAMPLING"
    /\ run[k].idx <= Len(tunables)
    /\ LET t == tunables[run[k].idx]
           r == run[k]
       IN  IF Recognized(t)
           THEN \E v \in Suggest(t) :
                    run' = [run EXCEPT ![k] =
                        [r EXCEPT !.idx = r.idx + 1,
                                  !.tunable_value = <<v>>,
                                  !.params = (t.name :> v) @@ r.params,
                                  !.experiment_tunables =
                                      Append(r.experiment_tunables,
                                             [tunable_name |-> t.name,
                                              tunable_value |-> v])]]
           ELSE IF Len(r.tunable_value) = 0
                THEN run' = [run EXCEPT ![k] = [r EXCEPT !.st = "FAILED"]]
                ELSE run' = [run EXCEPT ![k] =
                        [r EXCEPT !.idx = r.idx + 1,
                                  !.experiment_tunables =
                                      Append(r.experiment_tunables,
                                             [tunable_name |-> t.name,
                                              tunable_value |->
                                                  r.tunable_value[1]])]]
    /\ UNCHANGED <<n_trials, n_jobs, trials, tunables, direction,
                   hpo_algo_impl, pc, sampler, best_trial,
                   recommended_config, returned, err, logged, calls>>

\* Lines 68-72: the configuration is handed to perform_experiment.
CallRunner(k) ==
    /\ pc = "optimizing"
    /\ run[k].st = "SAMPLING"
    /\ run[k].idx > Len(tunables)
    /\ run' = [run EXCEPT ![k].st = "EVALUATING"]
    /\ UNCHANGED <<n_trials, n_jobs, trials, tunables, direction,
                   hpo_algo_impl, pc, sampler, best_trial,
                   recommended_config, returned, err, logged, calls>>

\* Lines 72-76: perform_experiment returns and the record is appended.
RunnerReturns(k) ==
    /\ pc = "optimizing"
    /\ run[k].st = "EVALUATING"
    /\ run[k].rec = 0
    /\ \E o \in Outcomes :
        /\ trials' = Append(trials,
               [experiment_tunables |-> run[k].experiment_tunables,
                experiment_status |-> o[2]])
        /\ run' = [run EXCEPT ![k] =
               [run[k] EXCEPT !.actual_slo_value = o[1],
                              !.experiment_status = o[2],
                              !.rec = Len(trials) + 1]]
    /\ UNCHANGED <<n_trials, n_jobs, tunables, direction, hpo_algo_impl, pc,
                   sampler, best_trial, recommended_config, returned, err,
                   logged, calls>>

\* Lines 78-82 and the study's bookkeeping of the finished trial.
EndTrial(k) ==
    /\ pc = "optimizing"
    /\ run[k].st = "EVALUATING"
    /\ run[k].rec # 0
    /\ IF Pruned(run[k].experiment_status)
       THEN /\ run' = [run EXCEPT ![k].st = "PRUNED"]
            /\ UNCHANGED best_trial
       ELSE LET v == Round2(run[k].actual_slo_value)
            IN  /\ run' = [run EXCEPT ![k] =
                       [run[k] EXCEPT !.st = "SCORED", !.value = v]]
                /\ best_trial' =
                       IF best_trial = 0 THEN k
                       ELSE IF Better(direction, v, run[best_trial].value)
                            THEN k ELSE best_trial
    /\ UNCHANGED <<n_trials, n_jobs, trials, tunables, direction,
                   hpo_algo_impl, pc, sampler, recommended_config, returned,
                   err, logged, calls>>

\* study.optimize returned: lines 119-153 and the end of recommend.
Finish ==
    /\ pc = "optimizing"
    /\ Len(run) = n_trials
    /\ NumRunning = 0
    /\ ~AnyFailed
    /\ IF best_trial = 0
       THEN /\ pc' = "error"
            /\ err' = "ValueError"
            /\ UNCHANGED <<recommended_config, returned, logged>>
       ELSE LET c == BuildConfig(tunables, direction, run[best_trial])
            IN  /\ pc' = "done"
                /\ recommended_config' = c
                /\ logged' = Append(logged, c)
                /\ returned' = <<>>
                /\ UNCHANGED err
    /\ UNCHANGED <<n_trials, n_jobs, trials, tunables, direction,
                   hpo_algo_impl, sampler, run, best_trial, calls>>

\* A trial raised UnboundLocalError: study.optimize lets it through.
OptimizeRaises ==
    /\ pc = "optimizing"
    /\ AnyFailed
    /\ NumRunning = 0
    /\ pc' = "error"
    /\ err' = "UnboundLocalError"
    /\ UNCHANGED <<n_trials, n_jobs, trials, tunables, direction,
                   hpo_algo_impl, sampler, run, best_trial,
                   recommended_config, returned, logged, calls>>

Next ==
    \/ Recommend
    \/ Submit
    \/ \E k \in 1 .. Len(run) : SampleTunable(k)
    \/ \E k \in 1 .. Len(run) : CallRunner(k)
    \/ \E k \in 1 .. Len(run) : RunnerReturns(k)
    \/ \E k \in 1 .. Len(run) : EndTrial(k)
    \/ Finish

Spec == Init /\ [][Next]_vars

\* The process calls recommend more than once.
InitRepeat ==
    /\ InitCommon
    /\ tunables = <<mode, cpu>>
    /\ hpo_algo_impl = "optuna_tpe"

NextRepeat == Next \/ RecommendAgain

SpecRepeat == InitRepeat /\ [][NextRepeat]_vars

\* Callers that pass a value_type or a strategy name the code does not know.
InitUnknown ==
    /\ InitCommon
    /\ \E c \in UnknownCalls : tunables = c[1] /\ hpo_algo_impl = c[2]

NextUnknown == Next \/ OptimizeRaises

SpecUnknown == InitUnknown /\ [][NextUnknown]_vars

\* The calls the progress of a run is checked on: the search space has no
\* part in how study.optimize hands out trials.
InitFair ==
    /\ InitCommon
    /\ \E c \in {<<<<mode>>, "optuna_tpe">>, <<<<replicas>>, "optuna_skopt">>} :
           tunables = c[1] /\ hpo_algo_impl = c[2]

\* Worker threads keep running and perform_experiment returns.
FairSpec == InitFair /\ [][Next]_vars /\ WF_vars(Next)

----------------------------------------------------------------------------
(* Properties *)

Ended(k) == run[k].st \in {"SCORED", "PRUNED"}

Finished == pc \in {"done", "error"}

\* v is in the domain tunable t declares.
InDomain(t, v) ==
    IF Lower(t.value_type) \in {"double", "integer"}
    THEN /\ t.lower_bound <= v
         /\ v <= t.upper_bound
         /\ (v - t.lower_bound) % t.step = 0
    ELSE \E j \in 1 .. Len(t.choices) : t.choices[j] = v

\* C1: whenever a recommend call has finished normally, the value handed to
\* the caller is the Recommended Configuration built from the best trial.
C1_ReturnsConfig ==
    pc = "done" => returned = <<recommended_config>>

\* C2: whenever a recommend call has completed (the first or a later one),
\* the trial history holds exactly n_trials Trial Records.
C2_HistoryCount ==
    Finished => Len(trials) = n_trials

\* C3: the objective value and the parameters of the Recommended
\* Configuration come from a trial whose runner status was not "prune".
C3_BestNotPruned ==
    pc = "done" =>
        \E k \in 1 .. Len(run) :
            LET ov == recommended_config.optimal_value
            IN  /\ run[k].experiment_status # "prune"
                /\ trials[run[k].rec].experiment_status # "prune"
                /\ ov.objective_function.value =
                       Round2(run[k].actual_slo_value)
                /\ Len(ov.tunables) = Len(run[k].experiment_tunables)
                /\ \A i \in 1 .. Len(ov.tunables) :
                       ov.tunables[i].value =
                           run[k].experiment_tunables[i].tunable_value

C3_Witness ==
    /\ pc = "done"
    /\ direction = "minimize"
    /\ \E k \in 1 .. Len(run) : run[k].st = "PRUNED"

\* C4: recommend never ends with an error when the error comes from the
\* trials having been pruned, also when all n_trials trials were pruned.
C4_PruneNotSurfaced ==
    ~(/\ pc = "error"
      /\ Len(run) = n_trials
      /\ \A k \in 1 .. Len(run) : run[k].st = "PRUNED")

\* C5: a run starts at most n_trials Objective calls, has finished only with
\* exactly n_trials of them ended and one Trial Record from each, and once
\* started it eventually finishes.
C5_ExactlyNTrials ==
    /\ [](Len(run) <= n_trials)
    /\ [](Finished =>
            /\ Len(run) = n_trials
            /\ \A k \in 1 .. Len(run) : Ended(k)
            /\ {run[k].rec : k \in 1 .. Len(run)} = 1 .. n_trials)
    /\ (pc = "optimizing" ~> Finished)

C5_Witness ==
    /\ pc = "done"
    /\ n_jobs > 1
    /\ n_trials > 1
    /\ trials[1].experiment_tunables = run[2].experiment_tunables
    /\ run[2].rec = 1

\* C6: two recommend calls with identical arguments and a stub runner that
\* always returns the same outcome log identical Recommended Configurations.
C6_Deterministic ==
    (/\ Len(logged) = 2
     /\ \A i \in 1 .. Len(trials) : trials[i].experiment_status = "success")
    => logged[1] = logged[2]

\* C7: the configuration handed to the runner has one pair per tunable, in
\* the declared order, each value in its own tunable's domain.
C7_ConfigInDomain ==
    \A k \in 1 .. Len(run) :
        run[k].st \in {"EVALUATING", "SCORED", "PRUNED"} =>
            LET et == run[k].experiment_tunables
            IN  /\ Len(et) = Len(tunables)
                /\ \A i \in 1 .. Len(et) :
                       /\ et[i].tunable_name = tunables[i].name
                       /\ InDomain(tunables[i], et[i].tunable_value)

C7_Witness ==
    \E k \in 1 .. Len(run) :
        /\ run[k].st = "EVALUATING"
        /\ Len(tunables) = 3
        /\ run[k].experiment_tunables[1].tunable_value = 7

\* C8: the Recommended Configuration lists every tunable once, in the
\* original order, with its name, its declared value_type and the best
\* trial's parameter of that name; the objective entry carries the given
\* name and value_type and the best trial's value.
C8_ConfigFromBest ==
    pc = "done" =>
        LET ov == recommended_config.optimal_value
            b == run[best_trial]
        IN  /\ best_trial \in 1 .. Len(run)
            /\ b.st = "SCORED"
            /\ \A k \in 1 .. Len(run) :
                   run[k].st = "SCORED" =>
                       ~Better(direction, run[k].value, b.value)
            /\ Len(ov.tunables) = Len(tunables)
            /\ \A i \in 1 .. Len(tunables) :
                   /\ ov.tunables[i].name = tunables[i].name
                   /\ ov.tunables[i].value_type = tunables[i].value_type
                   /\ ov.tunables[i].value = b.params[tunables[i].name]
            /\ ov.objective_function.name = objective_function
            /\ ov.objective_function.value_type = value_type
            /\ ov.objective_function.value = b.value
            /\ recommended_config.id = id
            /\ recommended_config.application_name = application_name
            /\ recommended_config.direction = direction

C8_Witness ==
    /\ pc = "done"
    /\ Len(tunables) = 3
    /\ best_trial = 2

\* One step of trial k, as C9 allows it.
C9_Step(k) ==
    IF k > Len(run) THEN run'[k].st = "SAMPLING"
    ELSE
        LET a == run[k].st
            b == run'[k].st
        IN  \/ a = b
            \/ a = "SAMPLING" /\ b = "EVALUATING"
            \/ /\ a = "EVALUATING"
               /\ run[k].rec \in 1 .. Len(trials)
               /\ trials[run[k].rec] =
                      [experiment_tunables |-> run[k].experiment_tunables,
                       experiment_status |-> run[k].experiment_status]
               /\ IF run[k].experiment_status = "prune"
                  THEN /\ b = "PRUNED"
                       /\ best_trial' = best_trial
                  ELSE /\ b = "SCORED"
                       /\ run'[k].value = Round2(run[k].actual_slo_value)
                       /\ best_trial' # 0
                       /\ ~Better(direction, run'[k].value,
                                  run'[best_trial'].value)

\* C9: every trial moves SAMPLING -> EVALUATING -> SCORED or PRUNED and
\* nowhere else; it ends only after its Trial Record was appended, PRUNED
\* exactly when the status is "prune", SCORED (its value given to the study)
\* for every other status.
C9_TrialLifecycle ==
    [][\A k \in 1 .. Len(run') : C9_Step(k)]_vars

C9_Witness ==
    \E k, j \in 1 .. Len(run) :
        /\ run[k].st = "PRUNED"
        /\ run[j].st = "SCORED"
        /\ run[j].experiment_status = "failure"

\* C10: every value in a Trial Configuration or in the Recommended
\* Configuration was sampled for the tunable it is filed under, in that trial.
C10_NoCarryOver ==
    /\ \A k \in 1 .. Len(run) :
           \A i \in 1 .. Len(run[k].experiment_tunables) :
               LET e == run[k].experiment_tunables[i]
               IN  /\ e.tunable_name \in DOMAIN run[k].params
                   /\ run[k].params[e.tunable_name] = e.tunable_value
    /\ pc = "done" =>
           \A i \in 1 .. Len(recommended_config.optimal_value.tunables) :
               recommended_config.optimal_value.tunables[i].name
                   \in DOMAIN run[best_trial].params

====
